---- MODULE Spec2Model ----
(***************************************************************************)
(* IC Redact (src/ic_redact.py): the PII scan of a page text (find_pii),   *)
(* the batch worker (WorkerThread.run) and the handlers of the main window *)
(* (ICRedactApp) that select files, start runs and receive their results.  *)
(***************************************************************************)
EXTENDS Integers, Sequences, FiniteSets, TLC

(***************************************************************************)
(* Texts are strings; offsets are 0-based as in Python, so the character   *)
(* at offset p is Ch(text, p + 1).                                         *)
(***************************************************************************)
Ch(s, i) == SubSeq(s, i, i)

\* the element of a one-element set: Only({e : v \in {x}}) is e with v bound to the
\* value of x, which is evaluated once
Only(set) == CHOOSE out \in set : TRUE

Chars(s) == [i \in 1..Len(s) |-> Ch(s, i)]

Range(f) == {f[i] : i \in DOMAIN f}

UpperSeq == Chars("ABCDEFGHIJKLMNOPQRSTUVWXYZ")

LowerSeq == Chars("abcdefghijklmnopqrstuvwxyz")

Upper == Range(UpperSeq)

Lower == Range(LowerSeq)

Digit == Range(Chars("0123456789"))

\* \w and \s of the re module, restricted to ASCII
WordChar == Upper \cup Lower \cup Digit \cup {"_"}

Whitespace == {" ", "\t", "\n", "\r", "\f"}

ToLower(c) == IF c \in Upper THEN LowerSeq[CHOOSE i \in 1..26 : UpperSeq[i] = c] ELSE c

ToUpper(c) == IF c \in Lower THEN UpperSeq[CHOOSE i \in 1..26 : LowerSeq[i] = c] ELSE c

\* membership of a character in a class, under re.IGNORECASE when ci
CharIn(c, S, ci) == c \in S \/ (ci /\ (ToLower(c) \in S \/ ToUpper(c) \in S))

(***************************************************************************)
(* Regular expressions as trees.  Unbounded repetition has hi = -1.        *)
(***************************************************************************)
Cls(S) == [k |-> "cls", s |-> S]

Cat(xs) == [k |-> "cat", xs |-> xs]

Alt(xs) == [k |-> "alt", xs |-> xs]

Rep(x, lo, hi) == [k |-> "rep", x |-> x, lo |-> lo, hi |-> hi]

Opt(x) == Rep(x, 0, 1)

Plus(x) == Rep(x, 1, -1)

Star(x) == Rep(x, 0, -1)

WB == [k |-> "wb"]

\* a literal string, as re.escape renders it: one exact character after another
Lit(s) == [k |-> "lit", s |-> s]

AltLit(ss) == Alt([i \in 1..Len(ss) |-> Lit(ss[i])])

IsWordAt(text, p) == p >= 1 /\ p <= Len(text) /\ Ch(text, p) \in WordChar

\* \b between offsets pos - 1 and pos
AtBoundary(text, pos) == IsWordAt(text, pos) # IsWordAt(text, pos + 1)

(***************************************************************************)
(* EndsFrom(r, ps, text, ci): the offsets at which a match of r can end    *)
(* when it starts at one of the offsets ps, in the order the               *)
(* backtracking matcher tries them (starts in order; greedy repetition     *)
(* first, alternatives left to right).  CatEnds does the same for the      *)
(* elements lo..hi of a concatenation.                                     *)
(***************************************************************************)
\* the concatenation of the sequences lo..hi of a sequence, one half after the other
RECURSIVE FlattenRange(_, _, _)
FlattenRange(ss, lo, hi) ==
    IF lo > hi THEN <<>>
    ELSE IF lo = hi THEN ss[lo]
    ELSE FlattenRange(ss, lo, (lo + hi) \div 2) \o FlattenRange(ss, (lo + hi) \div 2 + 1, hi)

\* the elements of a sequence at the indices of a set, in the order of the sequence
AtIndices(seq, indices) ==
    [k \in 1..Cardinality(indices) |->
        seq[CHOOSE i \in indices : Cardinality({j \in indices : j <= i}) = k]]

\* the concatenation of the sequences of a sequence
Flatten(seqs) == Only({FlattenRange(ss, 1, Len(ss)) : ss \in {seqs}})

\* the length of the longest run of characters of class cs from offset pos, at most max
RunLen(cs, text, pos, max, ci) ==
    Only({IF bad = {} THEN max ELSE (CHOOSE j \in bad : \A m \in bad : j <= m) - 1 :
         bad \in {{j \in 1..max : ~CharIn(Ch(text, pos + j), cs, ci)}}})

\* greedy cs{lo,hi} from pos: the longest run first
ClassRepEnds(cs, lo, hi, text, pos, ci) ==
    Only({IF top < lo THEN <<>> ELSE [j \in 1..(top - lo + 1) |-> pos + top - j + 1] :
         top \in {RunLen(cs, text, pos, IF hi >= 0 /\ hi < Len(text) - pos THEN hi ELSE Len(text) - pos, ci)}})

RECURSIVE EndsFrom(_, _, _, _), CatEnds(_, _, _, _, _, _)
EndsFrom(r, ps, text, ci) ==
    IF ps = <<>> THEN <<>>
    ELSE IF r.k = "cat" THEN CatEnds(r.xs, 1, Len(r.xs), ps, text, ci)
    ELSE IF Len(ps) > 1
    THEN Flatten([j \in 1..Len(ps) |-> EndsFrom(r, <<ps[j]>>, text, ci)])
    ELSE LET pos == ps[1]
         IN  CASE r.k = "cls" -> IF pos < Len(text) /\ CharIn(Ch(text, pos + 1), r.s, ci)
                                 THEN <<pos + 1>> ELSE <<>>
               [] r.k = "lit" -> IF /\ pos + Len(r.s) <= Len(text)
                                    /\ \A j \in 1..Len(r.s) : CharIn(Ch(text, pos + j), {Ch(r.s, j)}, ci)
                                 THEN <<pos + Len(r.s)>> ELSE <<>>
               [] r.k = "wb"  -> IF AtBoundary(text, pos) THEN ps ELSE <<>>
               [] r.k = "alt" -> Flatten([j \in 1..Len(r.xs) |-> EndsFrom(r.xs[j], ps, text, ci)])
               [] r.k = "rep" ->
                    IF r.x.k = "cls" THEN ClassRepEnds(r.x.s, r.lo, r.hi, text, pos, ci)
                    ELSE (IF r.hi = 0 THEN <<>>
                          ELSE Only({EndsFrom(Rep(r.x, IF r.lo > 0 THEN r.lo - 1 ELSE 0,
                                                     IF r.hi > 0 THEN r.hi - 1 ELSE r.hi),
                                                 once, text, ci) :
                                    once \in {SelectSeq(EndsFrom(r.x, ps, text, ci), LAMBDA e : e > pos)}}))
                         \o (IF r.lo = 0 THEN ps ELSE <<>>)

\* the elements lo..hi of a concatenation, one half after the other
CatEnds(xs, lo, hi, ps, text, ci) ==
    IF lo > hi THEN ps
    ELSE IF lo = hi THEN EndsFrom(xs[lo], ps, text, ci)
    ELSE Only({CatEnds(xs, (lo + hi) \div 2 + 1, hi, mid, text, ci) :
              mid \in {CatEnds(xs, lo, (lo + hi) \div 2, ps, text, ci)}})

\* the ends of the matches of r that start at pos; the re module reports the first
Ends(r, text, pos, ci) == EndsFrom(r, <<pos>>, text, ci)

\* the first offset >= pos at which r matches, or Len(text) + 1
NextStart(r, text, pos, ci) ==
    Only({IF ss = {} THEN Len(text) + 1 ELSE CHOOSE p \in ss : \A q \in ss : p <= q :
         ss \in {{p \in pos..Len(text) : Ends(r, text, p, ci) # <<>>}}})

\* re.finditer: the non-overlapping matches, scanning left to right
RECURSIVE finditer(_, _, _, _)
finditer(r, text, pos, ci) ==
    Only({ IF p > Len(text) THEN <<>>
           ELSE Only({ <<[start |-> p, end |-> e]>>
                          \o finditer(r, text, IF e = p THEN p + 1 ELSE e, ci) :
                       e \in {Ends(r, text, p, ci)[1]} }) :
           p \in {NextStart(r, text, pos, ci)} })

\* m.group() of a match
Group(text, m) == SubSeq(text, m.start + 1, m.end)

(***************************************************************************)
(* PII_PATTERNS and COMMON_NAMES                                           *)
(***************************************************************************)
D == Cls(Digit)

S == Cls(Whitespace)

DN(n) == Rep(D, n, n)

Year == Cat(<<AltLit(<<"19", "20">>), DN(2)>>)

\* (0?[1-9]|1[0-2])
Month == Alt(<<Cat(<<Opt(Lit("0")), Cls(Digit \ {"0"})>>), Cat(<<Lit("1"), Cls({"0", "1", "2"})>>)>>)

\* (0?[1-9]|[12]\d|3[01])
Day == Alt(<<Cat(<<Opt(Lit("0")), Cls(Digit \ {"0"})>>), Cat(<<Cls({"1", "2"}), D>>), Cat(<<Lit("3"), Cls({"0", "1"})>>)>>)

DateSep == Cls({"-", "/"})

PII_PATTERNS ==
    [SSN |-> << Cat(<<WB, DN(3), Lit("-"), DN(2), Lit("-"), DN(4), WB>>),
                Cat(<<WB, DN(3), S, DN(2), S, DN(4), WB>>) >>,
     PHONE |-> << Cat(<<WB, Opt(Lit("(")), DN(3), Opt(Lit(")")),
                        Opt(Cls({"-", "."} \cup Whitespace)), DN(3),
                        Opt(Cls({"-", "."} \cup Whitespace)), DN(4), WB>>) >>,
     EMAIL |-> << Cat(<<WB, Plus(Cls(Upper \cup Lower \cup Digit \cup {".", "_", "%", "+", "-"})),
                        Lit("@"), Plus(Cls(Upper \cup Lower \cup Digit \cup {".", "-"})),
                        Lit("."), Rep(Cls(Upper \cup Lower \cup {"|"}), 2, -1), WB>>) >>,
     CREDIT_CARD |-> << Cat(<<WB, DN(4), Opt(Cls({"-"} \cup Whitespace)), DN(4),
                              Opt(Cls({"-"} \cup Whitespace)), DN(4),
                              Opt(Cls({"-"} \cup Whitespace)), DN(4), WB>>) >>,
     BANK_ACCOUNT |-> << Cat(<<WB, Rep(D, 8, 17), WB>>) >>,
     DATE_OF_BIRTH |-> << Cat(<<WB, Month, DateSep, Day, DateSep, Year, WB>>),
                          Cat(<<WB, Year, DateSep, Month, DateSep, Day, WB>>),
                          Cat(<<WB, AltLit(<<"Jan", "Feb", "Mar", "Apr", "May", "Jun",
                                             "Jul", "Aug", "Sep", "Oct", "Nov", "Dec">>),
                                Star(Cls(Lower)), Opt(Lit(".")), Plus(S), Rep(D, 1, 2),
                                Opt(Lit(",")), Plus(S), Year, WB>>) >>,
     ADDRESS |-> << Cat(<<WB, Rep(D, 1, 5), Plus(S), Rep(Cls(WordChar \cup Whitespace), 1, 30),
                          Plus(S),
                          AltLit(<<"Street", "St", "Avenue", "Ave", "Road", "Rd", "Boulevard",
                                   "Blvd", "Drive", "Dr", "Lane", "Ln", "Way", "Court", "Ct">>),
                          Opt(Lit(".")), WB>>),
                    Cat(<<WB, Cls(Upper), Plus(Cls(Lower)), Opt(Lit(",")), Plus(S),
                          Rep(Cls(Upper), 2, 2), Plus(S), DN(5),
                          Opt(Cat(<<Lit("-"), DN(4)>>)), WB>>) >>]

COMMON_NAMES ==
    << "James", "John", "Robert", "Michael", "William", "David", "Richard", "Joseph", "Thomas", "Charles",
       "Mary", "Patricia", "Jennifer", "Linda", "Barbara", "Elizabeth", "Susan", "Jessica", "Sarah", "Karen",
       "Christopher", "Daniel", "Matthew", "Anthony", "Mark", "Donald", "Steven", "Paul", "Andrew", "Joshua" >>

(***************************************************************************)
(* WorkerThread.find_pii                                                   *)
(***************************************************************************)
\* the detections of one finditer loop
MatchesOf(r, text, ci, type) ==
    Only({ Only({ [i \in 1..Len(ms) |->
                     [text |-> Group(text, ms[i]), type |-> type, start |-> ms[i].start]] :
                  ms \in {finditer(p, text, 0, ci)} }) :
           p \in {r} })

\* for p in patterns: for m in re.finditer(p, text): detections.append(...)
ScanPatterns(ps, text, ci, type) ==
    Flatten([i \in 1..Len(ps) |-> MatchesOf(ps[i], text, ci, type)])

\* the words matched without re.IGNORECASE
ScanWordsCaseSensitive(ws, text, bounded, type) ==
    Flatten([i \in 1..Len(ws) |->
                MatchesOf(IF bounded THEN Cat(<<WB, Lit(ws[i]), WB>>) ELSE Lit(ws[i]), text, FALSE, type)])

\* for name in COMMON_NAMES / for word in self.custom_words
ScanWords(ws, text, bounded, type) ==
    Flatten([i \in 1..Len(ws) |->
                MatchesOf(IF bounded THEN Cat(<<WB, Lit(ws[i]), WB>>) ELSE Lit(ws[i]), text, TRUE, type)])

\* the list left in the order the loops appended it
SortedByStartUnsorted(detections) == detections

\* sorted(detections, key=lambda x: x["start"]): a stable sort, so a detection comes
\* after those that start before it and those of the same start appended before it
SortedByStart(detections) ==
    Only({ [k \in 1..Len(ds) |->
               ds[CHOOSE i \in 1..Len(ds) :
                      k = 1 + Cardinality({j \in 1..Len(ds) : \/ ds[j].start < ds[i].start
                                                              \/ ds[j].start = ds[i].start /\ j < i})]] :
           ds \in {detections} })

\* a key that also holds the type
DedupKeyTyped(d) == <<d.start, d.text, d.type>>

DedupKey(d) == <<d.start, d.text>>

\* a detection is appended to unique when its key is not in seen, that is when no
\* detection before it in the sorted list has its (start, text) key
Unique(ds) ==
    AtIndices(ds, {i \in 1..Len(ds) : \A j \in 1..(i - 1) : DedupKey(ds[j]) # DedupKey(ds[i])})

\* the bank-account loop under the checkbox of the credit cards
CandidatesBankUnderCard(text, detection, custom_words) ==
       (IF detection.ssn THEN ScanPatterns(PII_PATTERNS.SSN, text, FALSE, "SSN") ELSE <<>>)
    \o (IF detection.phone THEN ScanPatterns(PII_PATTERNS.PHONE, text, FALSE, "PHONE") ELSE <<>>)
    \o (IF detection.email THEN ScanPatterns(PII_PATTERNS.EMAIL, text, TRUE, "EMAIL") ELSE <<>>)
    \o (IF detection.credit_card THEN ScanPatterns(PII_PATTERNS.CREDIT_CARD, text, FALSE, "CREDIT_CARD") ELSE <<>>)
    \o (IF detection.credit_card THEN ScanPatterns(PII_PATTERNS.BANK_ACCOUNT, text, FALSE, "BANK_ACCOUNT") ELSE <<>>)
    \o (IF detection.dob THEN ScanPatterns(PII_PATTERNS.DATE_OF_BIRTH, text, TRUE, "DOB") ELSE <<>>)
    \o (IF detection.address THEN ScanPatterns(PII_PATTERNS.ADDRESS, text, TRUE, "ADDRESS") ELSE <<>>)
    \o (IF detection.names THEN ScanWords(COMMON_NAMES, text, TRUE, "NAME") ELSE <<>>)
    \o ScanWords(custom_words, text, FALSE, "CUSTOM")

\* the loop of the custom words before the loops of the categories
CandidatesCustomFirst(text, detection, custom_words) ==
       ScanWords(custom_words, text, FALSE, "CUSTOM")
    \o (IF detection.ssn THEN ScanPatterns(PII_PATTERNS.SSN, text, FALSE, "SSN") ELSE <<>>)
    \o (IF detection.phone THEN ScanPatterns(PII_PATTERNS.PHONE, text, FALSE, "PHONE") ELSE <<>>)
    \o (IF detection.email THEN ScanPatterns(PII_PATTERNS.EMAIL, text, TRUE, "EMAIL") ELSE <<>>)
    \o (IF detection.credit_card THEN ScanPatterns(PII_PATTERNS.CREDIT_CARD, text, FALSE, "CREDIT_CARD") ELSE <<>>)
    \o (IF detection.bank THEN ScanPatterns(PII_PATTERNS.BANK_ACCOUNT, text, FALSE, "BANK_ACCOUNT") ELSE <<>>)
    \o (IF detection.dob THEN ScanPatterns(PII_PATTERNS.DATE_OF_BIRTH, text, TRUE, "DOB") ELSE <<>>)
    \o (IF detection.address THEN ScanPatterns(PII_PATTERNS.ADDRESS, text, TRUE, "ADDRESS") ELSE <<>>)
    \o (IF detection.names THEN ScanWords(COMMON_NAMES, text, TRUE, "NAME") ELSE <<>>)

Candidates(text, detection, custom_words) ==
       (IF detection.ssn THEN ScanPatterns(PII_PATTERNS.SSN, text, FALSE, "SSN") ELSE <<>>)
    \o (IF detection.phone THEN ScanPatterns(PII_PATTERNS.PHONE, text, FALSE, "PHONE") ELSE <<>>)
    \o (IF detection.email THEN ScanPatterns(PII_PATTERNS.EMAIL, text, TRUE, "EMAIL") ELSE <<>>)
    \o (IF detection.credit_card THEN ScanPatterns(PII_PATTERNS.CREDIT_CARD, text, FALSE, "CREDIT_CARD") ELSE <<>>)
    \o (IF detection.bank THEN ScanPatterns(PII_PATTERNS.BANK_ACCOUNT, text, FALSE, "BANK_ACCOUNT") ELSE <<>>)
    \o (IF detection.dob THEN ScanPatterns(PII_PATTERNS.DATE_OF_BIRTH, text, TRUE, "DOB") ELSE <<>>)
    \o (IF detection.address THEN ScanPatterns(PII_PATTERNS.ADDRESS, text, TRUE, "ADDRESS") ELSE <<>>)
    \o (IF detection.names THEN ScanWords(COMMON_NAMES, text, TRUE, "NAME") ELSE <<>>)
    \o ScanWords(custom_words, text, FALSE, "CUSTOM")

find_pii(text, detection, custom_words) ==
    Only({Unique(sorted) : sorted \in {SortedByStart(Candidates(text, detection, custom_words))}})

(***************************************************************************)
(* ICRedactApp.get_detection_settings / get_custom_words                   *)
(***************************************************************************)
\* text.split(sep) for a one-character separator: the pieces between the separators
Split(str, sep) ==
    Only({ [k \in 1..(Cardinality(cuts) - 1) |->
               SubSeq(str, 1 + (CHOOSE i \in cuts : Cardinality({j \in cuts : j <= i}) = k),
                           (CHOOSE i \in cuts : Cardinality({j \in cuts : j <= i}) = k + 1) - 1)] :
           cuts \in {{i \in 1..Len(str) : Ch(str, i) = sep} \cup {0, Len(str) + 1}} })

\* str.strip()
Strip(str) ==
    Only({ IF keep = {} THEN ""
           ELSE SubSeq(str, CHOOSE i \in keep : \A j \in keep : i <= j,
                            CHOOSE i \in keep : \A j \in keep : j <= i) :
           keep \in {{i \in 1..Len(str) : Ch(str, i) \notin Whitespace}} })

\* the comment lines kept: [l.strip() for l in text.split('\n') if l.strip()]
get_custom_words_with_comments(box) ==
    Only({ SelectSeq([i \in DOMAIN lines |-> Strip(lines[i])], LAMBDA l : l # "") :
           lines \in {Split(box, "\n")} })

\* [l.strip() for l in text.split('\n') if l.strip() and not l.strip().startswith('#')]
get_custom_words(box) ==
    Only({ SelectSeq([i \in DOMAIN lines |-> Strip(lines[i])], LAMBDA l : l # "" /\ Ch(l, 1) # "#") :
           lines \in {Split(box, "\n")} })

(***************************************************************************)
(* Paths: os.path.basename, Path(...).stem, os.path.join                   *)
(***************************************************************************)
\* the index of the last occurrence of character c in str, or 0
LastIndex(str, c) ==
    Only({IF at = {} THEN 0 ELSE CHOOSE i \in at : \A j \in at : j <= i :
         at \in {{i \in 1..Len(str) : Ch(str, i) = c}}})

basename(path) == SubSeq(path, LastIndex(path, "/") + 1, Len(path))

dirname(path) == SubSeq(path, 1, LastIndex(path, "/") - 1)

\* the file name without its last suffix
stem(path) ==
    LET name == basename(path)
        dot  == LastIndex(name, ".")
    IN  IF dot > 1 THEN SubSeq(name, 1, dot - 1) ELSE name

join(dir, name) == dir \o "/" \o name

\* lines 333 and 336
out_path_of(output_dir, filepath) == join(output_dir, stem(filepath) \o "_REDACTED.pdf")

report_path_of(output_dir, filepath) == join(output_dir, stem(filepath) \o "_report.txt")

IsPdf(path) == Len(path) >= 4 /\ SubSeq(path, Len(path) - 3, Len(path)) = ".pdf"

(***************************************************************************)
(* Bounds and inputs of the model                                          *)
(***************************************************************************)
\* the longest file selection
MaxFiles == 2

\* the number of worker runs (preview or redact) started in one session
MaxRuns == 2

\* get_detection_settings with every box checked (the defaults of load_config)
AllOn ==
    [ssn |-> TRUE, names |-> TRUE, phone |-> TRUE, email |-> TRUE,
     address |-> TRUE, dob |-> TRUE, bank |-> TRUE, credit_card |-> TRUE]

\* the states of the window the user starts a run with: the checkboxes, the
\* custom-words box and the output style
RunSettings ==
    { [detection |-> AllOn, box |-> "", output_mode |-> "black"],
      [detection |-> [AllOn EXCEPT !.phone = FALSE], box |-> "call\n# note\n", output_mode |-> "labels"] }

\* the folders of the dialogs
Folders == {"/A", "/B"}

\* the folders the user saves to
OutputDirs == {"/A"}

\* the PDF files on disk when the session starts: path -> page texts
InitialDisk ==
    [path \in {"/A/x.pdf", "/B/x.pdf", "/A/x_REDACTED.pdf"} |->
        CASE path = "/A/x.pdf" -> <<"SSN 123-45-6789", "call 5551234567">>
          [] path = "/B/x.pdf" -> <<"call me">>
          [] path = "/A/x_REDACTED.pdf" -> <<"n/a", "Mary 123 45 6789">>]

\* where a document step may raise
FailPoints == {"none", "open", "save", "report"}

\* the number of checkbox changes followed by a scan of the same page
MaxRescans == 2

\* the page texts find_pii is applied to on its own
PageTexts ==
    { "", "call 5551234567", "1234567812345678", "Mary 123-45-6789",
      "12345678 Elm St", "a@b.co 1/2/1999", "# note Call" }

\* the checkboxes at the first scan of a page
InitialSettings ==
    { AllOn, [AllOn EXCEPT !.ssn = FALSE, !.names = FALSE, !.email = FALSE, !.address = FALSE] }

\* the contents of the custom-words box at the scans of a page
CustomBoxes == { "", "call\n mary \n# note\n\n \nca\nma\ncall" }

(***************************************************************************)
(* The scan of the pages of a document, lines 299-306                      *)
(***************************************************************************)
\* d["page"] = page_num + 1
WithPage(d, n) == [text |-> d.text, type |-> d.type, start |-> d.start, page |-> n]

\* lines 303-305: the detections of page n, each with its page number
TaggedWithPage(ds, n) == Only({[j \in 1..Len(v) |-> WithPage(v[j], n)] : v \in {ds}})

\* file_detections: the detections of every page in page order
FreshFileDetections(pages, detection, custom_words) ==
    Flatten([n \in 1..Len(pages) |-> TaggedWithPage(find_pii(pages[n], detection, custom_words), n)])

\* results["stats"][d["type"]] = results["stats"].get(d["type"], 0) + 1, for each d
CountStats(stats, ds) ==
    [t \in DOMAIN stats \cup {ds[i].type : i \in 1..Len(ds)} |->
        (IF t \in DOMAIN stats THEN stats[t] ELSE 0) + Cardinality({i \in 1..Len(ds) : ds[i].type = t})]

(***************************************************************************)
(* Redaction of a page, lines 321-331                                      *)
(***************************************************************************)
\* every detection of the document on every page
PageDetsAll(dets, n) == dets

\* page_dets = [d for d in dets if d.get("page") == page_num + 1]
PageDets(dets, n) == SelectSeq(dets, LAMBDA d : d.page = n)

\* page.search_for(d["text"]): the occurrences of the text on the page, letter case ignored
SearchFor(t, needle) == Only({finditer(r, t, 0, TRUE) : r \in {Lit(needle)}})

\* the redaction annotations added on a page, in the order of the loops
Marks(t, page_dets) ==
    Flatten([i \in 1..Len(page_dets) |->
                Only({ [j \in 1..Len(hits) |->
                           [from |-> hits[j].start, to |-> hits[j].end, det |-> page_dets[i]]] :
                       hits \in {SearchFor(t, page_dets[i].text)} })])

\* the strings lo..hi of a sequence joined, one half after the other
RECURSIVE JoinRange(_, _, _)
JoinRange(ss, lo, hi) ==
    IF lo > hi THEN ""
    ELSE IF lo = hi THEN ss[lo]
    ELSE JoinRange(ss, lo, (lo + hi) \div 2) \o JoinRange(ss, (lo + hi) \div 2 + 1, hi)

\* "".join(strings)
JoinStrings(strings) == Only({JoinRange(ss, 1, Len(ss)) : ss \in {strings}})

\* the labels drawn by the marks that begin at offset p
LabelsAt(marks, p) ==
    JoinStrings([i \in 1..Len(marks) |->
                    IF marks[i].from = p THEN "[" \o marks[i].det.type \o "]" ELSE ""])

\* page.apply_redactions(): the text under a mark is removed; labels mode draws the tag
Redacted(t, marks, use_labels) ==
    JoinStrings([q \in 1..Len(t) |->
                    (IF use_labels THEN LabelsAt(marks, q - 1) ELSE "")
                    \o (IF \E i \in 1..Len(marks) : marks[i].from <= q - 1 /\ q - 1 < marks[i].to
                        THEN "" ELSE Ch(t, q))])

RedactedPages(pages, dets, use_labels) ==
    [n \in 1..Len(pages) |->
        Only({ Redacted(pages[n], marks, use_labels) :
               marks \in {Marks(pages[n], PageDets(dets, n))} })]

(***************************************************************************)
(* The page scans of the model, computed once: the pages of the initial    *)
(* disk and their redactions, under the settings of the model              *)
(***************************************************************************)
InitialTexts == UNION {Range(InitialDisk[path]) : path \in DOMAIN InitialDisk}

RedactedTexts ==
    UNION {Only({Range(RedactedPages(InitialDisk[path], dets, v.output_mode = "labels")) :
                dets \in {FreshFileDetections(InitialDisk[path], u.detection, get_custom_words(u.box))}}) :
           path \in DOMAIN InitialDisk, u \in RunSettings, v \in RunSettings}

SettingsWords == [u \in RunSettings |-> get_custom_words(u.box)]

PageScanTable ==
    [t \in InitialTexts \cup RedactedTexts, u \in RunSettings |->
        find_pii(t, u.detection, SettingsWords[u])]

\* self.find_pii(text) in a worker with these settings
PageScan(t, detection, custom_words) ==
    LET known == {u \in RunSettings : u.detection = detection /\ SettingsWords[u] = custom_words}
    IN  IF known # {} /\ \E u \in known : <<t, u>> \in DOMAIN PageScanTable
        THEN PageScanTable[t, CHOOSE u \in known : TRUE]
        ELSE find_pii(t, detection, custom_words)

\* file_detections, the page scans read from the table
FileDetections(pages, detection, custom_words) ==
    Flatten([n \in 1..Len(pages) |-> TaggedWithPage(PageScan(pages[n], detection, custom_words), n)])

(***************************************************************************)
(* State                                                                   *)
(***************************************************************************)
VARIABLES
    selected_files,   \* ICRedactApp.selected_files: the list of selected paths
    preview_data,     \* ICRedactApp.preview_data: path -> detections of the last preview
    buttons_enabled,  \* Select PDFs, Folder, Preview and Redact are enabled
    summary_text,     \* the Summary tab: the title, the file count and the totals shown
    disk,             \* the PDF files on disk: path -> page texts
    report_files,     \* the report files on disk: path -> report
    worker,           \* the fields of the WorkerThread of the current run
    pc,               \* "idle", "running" (in the loop of run) or "emitted" (finished sent)
    doc_index,        \* the position of the loop of run in worker.files
    results,          \* the results dictionary of run
    events,           \* what the current run did, in order
    disk_at_start,    \* the PDF files on disk when the current run started
    runs,             \* the number of runs started
    scan_text,        \* the text of the page find_pii is applied to
    scan_settings,    \* the checkboxes: self.detection of the scanning worker
    scan_box,         \* the text of the custom-words box when the scanning worker was made
    scan_words,       \* self.custom_words of the scanning worker
    scan_result,      \* the list find_pii returned under scan_settings
    scan_previous,    \* the checkboxes and the list of the scan before the last change
    rescans           \* the number of checkbox changes followed by a scan

app_vars == <<selected_files, preview_data, buttons_enabled, summary_text, disk, report_files, worker, pc,
              doc_index, results, events, disk_at_start, runs>>

scan_vars == <<scan_text, scan_settings, scan_box, scan_words, scan_result, scan_previous, rescans>>

vars == <<app_vars, scan_vars>>

NoDict == <<>>

NoDet == [text |-> "", type |-> "", start |-> 0, page |-> 0]

NoWorker ==
    [files |-> <<>>, detection |-> AllOn, custom_words |-> <<>>, output_dir |-> "None",
     preview_data |-> NoDict, output_mode |-> "black", is_preview |-> TRUE]

\* line 290
NoResults == [detected |-> <<>>, output |-> <<>>, stats |-> NoDict, preview_data |-> NoDict]

\* an empty Summary tab
NoSummary == [title |-> "", files |-> 0, total |-> 0, stats |-> NoDict]

\* sum(stats.values())
RECURSIVE SumValues(_)
SumValues(stats) ==
    Only({ IF DOMAIN counts = {} THEN 0
           ELSE Only({ counts[t] + SumValues([q \in DOMAIN counts \ {t} |-> counts[q]]) :
                       t \in {CHOOSE q \in DOMAIN counts : TRUE} }) :
           counts \in {stats} })

\* the summary of lines 906-917 and 954-965
Summary(title, stats) ==
    [title |-> title, files |-> Len(selected_files), total |-> SumValues(stats), stats |-> stats]

Event(ev, doc, page, det) == [ev |-> ev, doc |-> doc, page |-> page, det |-> det]

\* the window after __init__
AppInit ==
    /\ selected_files = <<>>
    /\ preview_data = NoDict
    /\ buttons_enabled = TRUE
    /\ summary_text = NoSummary
    /\ disk = InitialDisk
    /\ report_files = NoDict
    /\ worker = NoWorker
    /\ pc = "idle"
    /\ doc_index = 1
    /\ results = NoResults
    /\ events = <<>>
    /\ disk_at_start = InitialDisk
    /\ runs = 0

\* no page is being scanned on its own
ScanIdle ==
    /\ scan_text = ""
    /\ scan_settings = AllOn
    /\ scan_box = ""
    /\ scan_words = <<>>
    /\ scan_result = <<>>
    /\ scan_previous = [settings |-> AllOn, result |-> <<>>]
    /\ rescans = 0

Init == AppInit /\ ScanIdle

(***************************************************************************)
(* ICRedactApp: the file selection, lines 834-865                          *)
(***************************************************************************)
\* the label is refreshed and the cache is kept
update_file_list_keep == preview_data' = preview_data

\* update_file_list: the label is refreshed and the cache is dropped
update_file_list == preview_data' = NoDict

\* Select PDFs: the dialog returns the chosen file
select_files(path) ==
    /\ UNCHANGED scan_vars
    /\ buttons_enabled
    /\ path \in DOMAIN disk
    /\ Len(selected_files) < MaxFiles
    /\ selected_files' = Append(selected_files, path)
    /\ update_file_list
    /\ UNCHANGED <<buttons_enabled, summary_text, disk, report_files, worker, pc, doc_index, results, events,
                   disk_at_start, runs>>

\* the orders in which glob may list the files of the set ps
Listings(ps) == {l \in [1..Cardinality(ps) -> ps] : \A i, j \in DOMAIN l : i # j => l[i] # l[j]}

\* Folder: every PDF of the folder is added; a folder without PDFs changes nothing
select_folder(folder, pdfs) ==
    /\ UNCHANGED scan_vars
    /\ buttons_enabled
    /\ pdfs \in Listings({path \in DOMAIN disk : dirname(path) = folder})
    /\ pdfs # <<>>
    /\ Len(selected_files) + Len(pdfs) <= MaxFiles
    /\ selected_files' = selected_files \o pdfs
    /\ update_file_list
    /\ UNCHANGED <<buttons_enabled, summary_text, disk, report_files, worker, pc, doc_index, results, events,
                   disk_at_start, runs>>

\* Clear: this button stays enabled during a run
clear_files ==
    /\ UNCHANGED scan_vars
    /\ selected_files' = <<>>
    /\ preview_data' = NoDict
    /\ summary_text' = NoSummary
    /\ UNCHANGED <<buttons_enabled, disk, report_files, worker, pc, doc_index, results, events,
                   disk_at_start, runs>>

(***************************************************************************)
(* ICRedactApp: starting a run, lines 883-900 and 924-948                  *)
(***************************************************************************)
\* the four buttons are left enabled
set_buttons_enabled_stuck(enabled) == buttons_enabled' = TRUE

\* lines 974-978
set_buttons_enabled(enabled) == buttons_enabled' = enabled

\* no run is a preview
IsPreviewNever(output_dir) == FALSE

\* line 231: self.is_preview = output_dir is None
IsPreview(output_dir) == output_dir = "None"

\* WorkerThread.__init__ and start
start_worker(files, detection, custom_words, output_dir, cache, output_mode) ==
    /\ worker' = [files |-> files, detection |-> detection, custom_words |-> custom_words,
                  output_dir |-> output_dir, preview_data |-> cache,
                  output_mode |-> output_mode, is_preview |-> IsPreview(output_dir)]
    /\ pc' = "running"
    /\ doc_index' = 1
    /\ results' = NoResults
    /\ events' = <<>>
    /\ disk_at_start' = disk
    /\ runs' = runs + 1

preview(detection, box) ==
    /\ UNCHANGED scan_vars
    /\ buttons_enabled
    /\ selected_files # <<>>
    /\ runs < MaxRuns
    /\ set_buttons_enabled(FALSE)
    /\ start_worker(selected_files, detection, get_custom_words(box), "None", NoDict, "black")
    /\ UNCHANGED <<selected_files, preview_data, summary_text, disk, report_files>>

redact(detection, box, output_dir, output_mode) ==
    /\ UNCHANGED scan_vars
    /\ buttons_enabled
    /\ selected_files # <<>>
    /\ runs < MaxRuns
    /\ set_buttons_enabled(FALSE)
    /\ start_worker(selected_files, detection, get_custom_words(box), output_dir,
                    preview_data, output_mode)
    /\ UNCHANGED <<selected_files, preview_data, summary_text, disk, report_files>>

(***************************************************************************)
(* WorkerThread.run, lines 289-355                                         *)
(***************************************************************************)
\* one entry of results["detected"]: a file header, a finding, "No PII detected." or an error
DetectedEntry(kind, name, d) ==
    [kind |-> kind, name |-> name, page |-> d.page, type |-> d.type, text |-> d.text]

\* lines 310-314
Findings(file_detections) ==
    IF file_detections # <<>>
    THEN [j \in 1..Len(file_detections) |-> DetectedEntry("finding", "", file_detections[j])]
    ELSE <<DetectedEntry("none", "", NoDet)>>

\* one entry of results["output"]: the paths written for a file, or its error
OutputEntry(ok, name, out_path, report_path) ==
    [ok |-> ok, name |-> name, out_path |-> out_path, report_path |-> report_path]

\* the report file of lines 337-342 (the date line is left out)
Report(filename, dets) ==
    [source |-> filename, count |-> Len(dets),
     items |-> [j \in 1..Len(dets) |-> [page |-> dets[j].page, type |-> dets[j].type, text |-> dets[j].text]]]

\* self.preview_data.get(filepath) or file_detections: an empty cached list is not used
DetsForTruthy(cache, filepath, file_detections) ==
    IF filepath \in DOMAIN cache /\ cache[filepath] # <<>> THEN cache[filepath] ELSE file_detections

\* line 319: dets = self.preview_data.get(filepath, file_detections)
DetsFor(cache, filepath, file_detections) ==
    IF filepath \in DOMAIN cache THEN cache[filepath] ELSE file_detections

\* the events of the loops of lines 323-330 for the detections of a page
DetEvents(doc, n, t, page_dets) ==
    Flatten([i \in 1..Len(page_dets) |->
                <<Event("redact", doc, n, page_dets[i])>>
                \o [j \in 1..Len(SearchFor(t, page_dets[i].text)) |-> Event("mark", doc, n, page_dets[i])]])

\* the events of the loop of lines 321-331 for the pages of a document
PageEvents(doc, pages, dets) ==
    Flatten([n \in 1..Len(pages) |->
                DetEvents(doc, n, pages[n], PageDets(dets, n)) \o <<Event("commit", doc, n, NoDet)>>])

\* the except clause around the loop: a document that raises ends the loop
AfterDocumentAbort(raised) == IF raised THEN Len(worker.files) + 1 ELSE doc_index + 1

\* the except clause is inside the loop: the loop goes on with the next file whether
\* or not this one raised
AfterDocument(raised) == doc_index + 1

\* one iteration of the loop over self.files; fail names the call that raises, if any
ProcessDocument(fail) ==
    /\ UNCHANGED scan_vars
    /\ pc = "running"
    /\ doc_index <= Len(worker.files)
    /\ \E filepath \in {worker.files[doc_index]} :
       \E filename \in {basename(filepath)} :
       LET header  == DetectedEntry("file", filename, NoDet)
           error   == DetectedEntry("error", "", NoDet)
           started == <<Event("progress", doc_index, 0, NoDet)>>
       IN  IF fail = "open" \/ filepath \notin DOMAIN disk
           THEN \* fitz.open raises
                /\ results' = [results EXCEPT
                                 !.detected = @ \o <<header, error>>,
                                 !.output = IF worker.is_preview THEN @
                                            ELSE Append(@, OutputEntry(FALSE, filename, "", ""))]
                /\ events' = events \o started
                /\ UNCHANGED <<disk, report_files>>
           ELSE \E pages \in {disk[filepath]} :
                \E file_detections \in {FileDetections(pages, worker.detection, worker.custom_words)} :
                \E scanned \in {[results EXCEPT
                                   !.detected = @ \o <<header>> \o Findings(file_detections),
                                   !.stats = CountStats(@, file_detections),
                                   !.preview_data = [q \in DOMAIN @ \cup {filepath} |->
                                                       IF q = filepath THEN file_detections ELSE @[q]]]} :
                \E opened \in {started \o <<Event("open", doc_index, 0, NoDet)>>
                                \o [j \in 1..Len(file_detections) |->
                                       Event("found", doc_index, file_detections[j].page, file_detections[j])]} :
                IF worker.is_preview
                THEN /\ results' = scanned
                     /\ events' = events \o opened \o <<Event("close", doc_index, 0, NoDet)>>
                     /\ UNCHANGED <<disk, report_files>>
                ELSE \E dets \in {DetsFor(worker.preview_data, filepath, file_detections)} :
                     \E redacting \in {opened \o PageEvents(doc_index, pages, dets)} :
                     \E out_path \in {out_path_of(worker.output_dir, filepath)} :
                     \E report_path \in {report_path_of(worker.output_dir, filepath)} :
                     IF fail = "save"
                     THEN \* doc.save raises
                          /\ results' = [scanned EXCEPT
                                           !.detected = @ \o <<error>>,
                                           !.output = Append(@, OutputEntry(FALSE, filename, "", ""))]
                          /\ events' = events \o redacting
                          /\ UNCHANGED <<disk, report_files>>
                     ELSE \E redacted \in {RedactedPages(pages, dets, worker.output_mode = "labels")} :
                          \E saved \in {[q \in DOMAIN disk \cup {out_path} |->
                                            IF q = out_path THEN redacted ELSE disk[q]]} :
                          IF fail = "report"
                          THEN \* open(report_path, 'w') raises
                               /\ results' = [scanned EXCEPT
                                                !.detected = @ \o <<error>>,
                                                !.output = Append(@, OutputEntry(FALSE, filename, "", ""))]
                               /\ events' = events \o redacting \o <<Event("save", doc_index, 0, NoDet)>>
                               /\ disk' = saved
                               /\ UNCHANGED report_files
                          ELSE /\ results' = [scanned EXCEPT
                                                !.output = Append(@, OutputEntry(TRUE, filename, out_path,
                                                                                report_path))]
                               /\ events' = events \o redacting
                                            \o <<Event("save", doc_index, 0, NoDet),
                                                 Event("report", doc_index, 0, NoDet),
                                                 Event("close", doc_index, 0, NoDet)>>
                               /\ disk' = saved
                               /\ report_files' = [q \in DOMAIN report_files \cup {report_path} |->
                                                     IF q = report_path THEN Report(filename, dets)
                                                     ELSE report_files[q]]
    /\ doc_index' = AfterDocument(fail # "none")
    /\ UNCHANGED <<selected_files, preview_data, buttons_enabled, summary_text, worker, pc,
                   disk_at_start, runs>>

\* the signal is sent twice
emit_finished_twice ==
    /\ UNCHANGED scan_vars
    /\ pc = "running"
    /\ doc_index > Len(worker.files)
    /\ pc' = "emitted"
    /\ events' = events \o <<Event("finished", 0, 0, NoDet), Event("finished", 0, 0, NoDet)>>
    /\ UNCHANGED <<selected_files, preview_data, buttons_enabled, summary_text, disk, report_files,
                   worker, doc_index, results, disk_at_start, runs>>

\* line 355: self.finished.emit(results)
emit_finished ==
    /\ UNCHANGED scan_vars
    /\ pc = "running"
    /\ doc_index > Len(worker.files)
    /\ pc' = "emitted"
    /\ events' = Append(events, Event("finished", 0, 0, NoDet))
    /\ UNCHANGED <<selected_files, preview_data, buttons_enabled, summary_text, disk, report_files,
                   worker, doc_index, results, disk_at_start, runs>>

(***************************************************************************)
(* ICRedactApp: the slots of the finished signal, lines 902-972.  The run  *)
(* is over: its results dictionary and its worker are not used again.      *)
(***************************************************************************)
preview_finished ==
    /\ UNCHANGED scan_vars
    /\ pc = "emitted"
    /\ worker.is_preview
    /\ preview_data' = results.preview_data
    /\ summary_text' = Summary("PREVIEW SUMMARY", results.stats)
    /\ set_buttons_enabled(TRUE)
    /\ pc' = "idle"
    /\ worker' = NoWorker
    /\ results' = NoResults
    /\ events' = <<>>
    /\ doc_index' = 1
    /\ disk_at_start' = disk
    /\ UNCHANGED <<selected_files, disk, report_files, runs>>

redact_finished ==
    /\ UNCHANGED scan_vars
    /\ pc = "emitted"
    /\ ~worker.is_preview
    /\ summary_text' = Summary("REDACTION COMPLETE", results.stats)
    /\ set_buttons_enabled(TRUE)
    /\ pc' = "idle"
    /\ worker' = NoWorker
    /\ results' = NoResults
    /\ events' = <<>>
    /\ doc_index' = 1
    /\ disk_at_start' = disk
    /\ UNCHANGED <<selected_files, preview_data, disk, report_files, runs>>

Next ==
    \/ \E path \in DOMAIN InitialDisk : select_files(path)
    \/ \E folder \in Folders : \E pdfs \in Listings({path \in DOMAIN disk : dirname(path) = folder}) :
           select_folder(folder, pdfs)
    \/ clear_files
    \/ \E u \in RunSettings : preview(u.detection, u.box)
    \/ \E u \in RunSettings, output_dir \in OutputDirs :
           redact(u.detection, u.box, output_dir, u.output_mode)
    \/ \E fail \in FailPoints : ProcessDocument(fail)
    \/ emit_finished
    \/ preview_finished
    \/ redact_finished

Spec == Init /\ [][Next]_vars

(***************************************************************************)
(* find_pii on its own: a page text is scanned, then scanned again each    *)
(* time one checkbox is changed                                            *)
(***************************************************************************)
\* the keys of get_detection_settings
Categories == {"ssn", "names", "phone", "email", "address", "dob", "bank", "credit_card"}

\* the type find_pii gives the detections of a category
TypeOf(category) ==
    CASE category = "ssn" -> "SSN"
      [] category = "phone" -> "PHONE"
      [] category = "email" -> "EMAIL"
      [] category = "credit_card" -> "CREDIT_CARD"
      [] category = "bank" -> "BANK_ACCOUNT"
      [] category = "dob" -> "DOB"
      [] category = "address" -> "ADDRESS"
      [] category = "names" -> "NAME"

ScanInit ==
    /\ AppInit
    /\ scan_text \in PageTexts
    /\ scan_settings \in InitialSettings
    /\ scan_box \in CustomBoxes
    /\ scan_words = get_custom_words(scan_box)
    /\ scan_result = find_pii(scan_text, scan_settings, scan_words)
    /\ scan_previous = [settings |-> scan_settings, result |-> scan_result]
    /\ rescans = 0

\* the checkbox of a category is changed and the same page is scanned again
rescan(category) ==
    /\ rescans < MaxRescans
    /\ rescans' = rescans + 1
    /\ scan_settings' = [scan_settings EXCEPT ![category] = ~@]
    /\ scan_result' = find_pii(scan_text, scan_settings', scan_words)
    /\ scan_previous' = [settings |-> scan_settings, result |-> scan_result]
    /\ UNCHANGED <<scan_text, scan_box, scan_words>>
    /\ UNCHANGED app_vars

ScanNext == \E category \in Categories : rescan(category)

SpecScan == ScanInit /\ [][ScanNext]_vars

(***************************************************************************)
(* What a run did, read from its events                                    *)
(***************************************************************************)
RedactRun == pc \in {"running", "emitted"} /\ ~worker.is_preview

PreviewRun == pc \in {"running", "emitted"} /\ worker.is_preview

\* the documents of the batch the loop is done with
Processed == 1..(doc_index - 1)

EventsOf(j, ev) == SelectSeq(events, LAMBDA e : e.doc = j /\ e.ev = ev)

DetsOf(evs) == [i \in 1..Len(evs) |-> evs[i].det]

\* the detections the redaction loop went through on the pages of document j
AppliedDets(j) == DetsOf(EventsOf(j, "redact"))

\* the detections the scan of this run found in document j
FreshDets(j) == DetsOf(EventsOf(j, "found"))

Opened(j) == EventsOf(j, "open") # <<>>

\* the pages of document j when it was opened in a redact run
PagesOf(j) == Len(EventsOf(j, "commit"))

Cached(j) == worker.files[j] \in DOMAIN worker.preview_data

(***************************************************************************)
(* C1  Preview/redact parity: in a redact run, for every document that was *)
(* opened and has an entry in the cache the run was started with, the      *)
(* detections the redaction loop applies to the pages of the document are  *)
(* exactly the list the preview stored for it.                             *)
(***************************************************************************)
C1_PreviewRedactParity ==
    RedactRun =>
        \A j \in Processed :
            (Opened(j) /\ Cached(j)) => AppliedDets(j) = worker.preview_data[worker.files[j]]

(***************************************************************************)
(* What two scans of the same page returned, before and after one checkbox *)
(* was changed                                                             *)
(***************************************************************************)
\* the last change turned the checkbox of the category off
TurnedOff(category) ==
    /\ rescans > 0
    /\ scan_previous.settings[category]
    /\ scan_settings = [scan_previous.settings EXCEPT ![category] = FALSE]

\* the list returned with the category on, and the list returned with it off
ResultOn == scan_previous.result

ResultOff == scan_result

SameSpan(d, e) == d.start = e.start /\ d.text = e.text

(***************************************************************************)
(* C2  Category independence, as claimed: when one built-in category is    *)
(* turned off, the result of find_pii on the same page is the result with  *)
(* the category on without the detections of that category: they are all   *)
(* removed and nothing else changes.                                       *)
(***************************************************************************)
C2_CategoryIndependence ==
    \A c \in Categories :
        TurnedOff(c) => ResultOff = SelectSeq(ResultOn, LAMBDA d : d.type # TypeOf(c))

(***************************************************************************)
(* C2  Category independence, amended: when one built-in category is       *)
(* turned off, the result holds no detection of that category, every other *)
(* detection of the result with the category on is kept, in the same       *)
(* order, and a detection that was not in that result has the start and    *)
(* the text of a detection of the category turned off that was in it.      *)
(***************************************************************************)
C2_CategoryIndependenceUpToDedup ==
    \A c \in Categories :
        TurnedOff(c) =>
            /\ \A i \in 1..Len(ResultOff) : ResultOff[i].type # TypeOf(c)
            /\ SelectSeq(ResultOff, LAMBDA d : d \in Range(ResultOn))
                  = SelectSeq(ResultOn, LAMBDA d : d.type # TypeOf(c))
            /\ \A i \in 1..Len(ResultOff) :
                  ResultOff[i] \notin Range(ResultOn) =>
                      \E j \in 1..Len(ResultOn) :
                          ResultOn[j].type = TypeOf(c) /\ SameSpan(ResultOn[j], ResultOff[i])

\* a category with a detection in the result was turned off, a detection of another
\* category was kept, and a detection that had lost the deduplication appeared
C2_Witness ==
    \E c \in Categories :
        /\ TurnedOff(c)
        /\ \E j \in 1..Len(ResultOn) : ResultOn[j].type = TypeOf(c)
        /\ \E i \in 1..Len(ResultOff) : ResultOff[i] \in Range(ResultOn)
        /\ \E i \in 1..Len(ResultOff) : ResultOff[i] \notin Range(ResultOn)

(***************************************************************************)
(* C3  Per-document error isolation: when a batch run has emitted its      *)
(* result, every document of the batch was started exactly once, whatever  *)
(* happened to the documents before it, and a redact run has recorded      *)
(* exactly one outcome for each document, in batch order: a success entry  *)
(* with its two output paths if the document was saved and reported, an    *)
(* error entry otherwise.                                                  *)
(***************************************************************************)
C3_ErrorIsolation ==
    pc = "emitted" =>
        /\ \A j \in 1..Len(worker.files) : Len(EventsOf(j, "progress")) = 1
        /\ ~worker.is_preview =>
              /\ Len(results.output) = Len(worker.files)
              /\ \A j \in 1..Len(worker.files) :
                    /\ results.output[j].name = basename(worker.files[j])
                    /\ results.output[j].ok <=> EventsOf(j, "report") # <<>>
                    /\ results.output[j].ok =>
                          /\ results.output[j].out_path = out_path_of(worker.output_dir, worker.files[j])
                          /\ results.output[j].report_path = report_path_of(worker.output_dir, worker.files[j])

\* a batch of two whose first document failed to open and whose second was redacted
C3_Witness ==
    /\ pc = "emitted"
    /\ ~worker.is_preview
    /\ Len(worker.files) = 2
    /\ ~Opened(1)
    /\ ~results.output[1].ok
    /\ results.output[2].ok

(***************************************************************************)
(* C4  Dedup invariant: the list returned by find_pii holds no two         *)
(* detections with the same start offset and the same matched text.        *)
(***************************************************************************)
C4_DedupInvariant ==
    \A i, j \in 1..Len(scan_result) :
        (scan_result[i].start = scan_result[j].start /\ scan_result[i].text = scan_result[j].text)
            => i = j

\* in a scan after a checkbox change, two loops of different categories appended the
\* same span, and the list returned is shorter than the list appended
C4_Witness ==
    /\ rescans > 0
    /\ scan_result # <<>>
    /\ Len(scan_result) < Len(Candidates(scan_text, scan_settings, scan_words))
    /\ \E d, e \in Range(Candidates(scan_text, scan_settings, scan_words)) :
          SameSpan(d, e) /\ d.type # e.type

(***************************************************************************)
(* C5  Ordering invariant: in the list returned by find_pii the start      *)
(* offset of a detection is less than or equal to the start offset of the  *)
(* detection after it.                                                     *)
(***************************************************************************)
C5_OrderingInvariant ==
    \A i \in 1..(Len(scan_result) - 1) : scan_result[i].start <= scan_result[i + 1].start

\* in a scan after a checkbox change, the loops appended a detection before one that
\* starts earlier in the text, and both are in the list returned
C5_Witness ==
    /\ rescans > 0
    /\ Len(scan_result) >= 2
    /\ \E i, j \in 1..Len(Candidates(scan_text, scan_settings, scan_words)) :
          /\ i < j
          /\ Candidates(scan_text, scan_settings, scan_words)[i].start
                > Candidates(scan_text, scan_settings, scan_words)[j].start
          /\ Candidates(scan_text, scan_settings, scan_words)[i] \in Range(scan_result)
          /\ Candidates(scan_text, scan_settings, scan_words)[j] \in Range(scan_result)

(***************************************************************************)
(* C6  Cache invalidation: every step that changes the selected file list  *)
(* leaves the preview cache empty, and the cache a redact run is started   *)
(* with holds entries only for files of the list it is started on.         *)
(***************************************************************************)
C6_CacheInvalidation ==
    [][/\ selected_files' # selected_files => preview_data' = NoDict
       /\ (pc = "idle" /\ pc' = "running" /\ ~worker'.is_preview)
             => DOMAIN worker'.preview_data \subseteq Range(worker'.files)]_vars

\* the Summary tab still shows a preview that found items, so its results were stored
\* in the cache and Clear was not pressed since; a file was then added to the list,
\* and a redact run is started on the new list with an empty cache
C6_Witness ==
    /\ RedactRun
    /\ summary_text.title = "PREVIEW SUMMARY"
    /\ summary_text.total > 0
    /\ summary_text.files < Len(selected_files)
    /\ worker.files = selected_files
    /\ worker.preview_data = NoDict

(***************************************************************************)
(* C7  Original input files are never modified: during and after a redact  *)
(* run the content at every input path of the batch is what it was when    *)
(* the run started.                                                        *)
(***************************************************************************)
C7_InputsNeverModified ==
    RedactRun =>
        \A j \in 1..Len(worker.files) : disk[worker.files[j]] = disk_at_start[worker.files[j]]

(***************************************************************************)
(* C8  One output pair per successfully redacted document: when a redact   *)
(* run has emitted its result, the documents recorded as successes have    *)
(* pairwise different redacted-document paths and report paths, so no pair *)
(* was written over by another document of the batch.                      *)
(***************************************************************************)
C8_OnePairPerDocument ==
    (pc = "emitted" /\ ~worker.is_preview) =>
        \A j, k \in 1..Len(results.output) :
            (j # k /\ results.output[j].ok /\ results.output[k].ok)
                => /\ results.output[j].out_path # results.output[k].out_path
                   /\ results.output[j].report_path # results.output[k].report_path

(***************************************************************************)
(* C9  A preview run writes no file: no step of a run started without an   *)
(* output directory changes a PDF or a report on disk, and the run places  *)
(* no redaction mark, commits no page, saves nothing and writes no report. *)
(***************************************************************************)
C9_PreviewWritesNothing ==
    [][(pc = "running" /\ worker.output_dir = "None")
          => /\ disk' = disk
             /\ report_files' = report_files
             /\ \A i \in 1..Len(events') :
                   events'[i].ev \notin {"redact", "mark", "commit", "save", "report"}]_vars

\* a preview run that scanned a document and found something
C9_Witness ==
    /\ pc = "emitted"
    /\ worker.output_dir = "None"
    /\ \E q \in DOMAIN results.preview_data : results.preview_data[q] # <<>>

(***************************************************************************)
(* C10  Fallback to fresh detections: in a redact run, for every opened    *)
(* document without an entry in the cache the detections applied on its    *)
(* pages are exactly the detections the scan of the same run found in it;  *)
(* for a document with an entry they are the cached detections of the      *)
(* pages the document has, also when the cached list is empty.             *)
(***************************************************************************)
C10_FallbackToFresh ==
    RedactRun =>
        \A j \in Processed :
            Opened(j) =>
                IF Cached(j)
                THEN AppliedDets(j) = SelectSeq(worker.preview_data[worker.files[j]],
                                                LAMBDA d : d.page <= PagesOf(j))
                ELSE AppliedDets(j) = FreshDets(j)

\* a run with a document without a cache entry that has detections, and a document
\* whose cached list is empty although the scan of the run finds something in it
C10_Witness ==
    /\ RedactRun
    /\ \E j \in Processed : Opened(j) /\ ~Cached(j) /\ FreshDets(j) # <<>>
    /\ \E j \in Processed : /\ Opened(j) /\ Cached(j) /\ FreshDets(j) # <<>>
                            /\ worker.preview_data[worker.files[j]] = <<>>

(***************************************************************************)
(* The occurrences of a phrase in a text, read from the text itself        *)
(***************************************************************************)
\* the phrase is at offset p of the text, letter case ignored
OccursAt(word, text, p) ==
    /\ p + Len(word) <= Len(text)
    /\ \A j \in 1..Len(word) : ToLower(Ch(text, p + j)) = ToLower(Ch(word, j))

\* the offsets of the occurrences from offset p on, taken from left to right
\* without overlap
RECURSIVE OccurrencesFrom(_, _, _)
OccurrencesFrom(word, text, p) ==
    IF word = "" \/ p + Len(word) > Len(text) THEN {}
    ELSE IF OccursAt(word, text, p) THEN {p} \cup OccurrencesFrom(word, text, p + Len(word))
    ELSE OccurrencesFrom(word, text, p + 1)

\* the detections of the result at offset p with the text of the phrase found there
DetectionsOf(word, p) ==
    {k \in 1..Len(scan_result) :
        /\ scan_result[k].start = p
        /\ scan_result[k].text = SubSeq(scan_text, p + 1, p + Len(word))}

(***************************************************************************)
(* C11  Custom phrases, as claimed: for every custom phrase and every      *)
(* occurrence of it in the page text, the result of find_pii holds exactly *)
(* one detection at the offset of the occurrence with its text, and that   *)
(* detection has type CUSTOM, whatever categories are enabled.             *)
(***************************************************************************)
C11_CustomPhrases ==
    \A i \in 1..Len(scan_words) :
        \A p \in OccurrencesFrom(scan_words[i], scan_text, 0) :
            /\ Cardinality(DetectionsOf(scan_words[i], p)) = 1
            /\ \A k \in DetectionsOf(scan_words[i], p) : scan_result[k].type = "CUSTOM"

(***************************************************************************)
(* C11  Custom phrases, amended: for every custom phrase and every         *)
(* occurrence of it in the page text, the result of find_pii holds exactly *)
(* one detection at the offset of the occurrence with its text; its type   *)
(* is CUSTOM, or the type of an enabled built-in category that matched the *)
(* same span.                                                              *)
(***************************************************************************)
C11_CustomPhrasesUpToDedup ==
    \A i \in 1..Len(scan_words) :
        \A p \in OccurrencesFrom(scan_words[i], scan_text, 0) :
            /\ Cardinality(DetectionsOf(scan_words[i], p)) = 1
            /\ \A k \in DetectionsOf(scan_words[i], p) :
                  \/ scan_result[k].type = "CUSTOM"
                  \/ \E c \in Categories : scan_settings[c] /\ scan_result[k].type = TypeOf(c)

\* in a scan after a checkbox change, one custom phrase is found in another letter
\* case and detected as CUSTOM, and the same scan with the names on gives NAME there
C11_Witness ==
    /\ rescans > 0
    /\ \E i \in 1..Len(scan_words) :
          \E p \in OccurrencesFrom(scan_words[i], scan_text, 0) :
             /\ SubSeq(scan_text, p + 1, p + Len(scan_words[i])) # scan_words[i]
             /\ \E k \in DetectionsOf(scan_words[i], p) : scan_result[k].type = "CUSTOM"
             /\ \E k \in 1..Len(scan_previous.result) :
                   /\ scan_previous.result[k].start = p
                   /\ scan_previous.result[k].text = SubSeq(scan_text, p + 1, p + Len(scan_words[i]))
                   /\ scan_previous.result[k].type = "NAME"

(***************************************************************************)
(* The scan order of find_pii: the categories in the order of their loops, *)
(* then the custom phrases in the order of the list                        *)
(***************************************************************************)
ScanOrder == <<"SSN", "PHONE", "EMAIL", "CREDIT_CARD", "BANK_ACCOUNT", "DOB", "ADDRESS", "NAME", "CUSTOM">>

ScanRank(type) == CHOOSE k \in 1..Len(ScanOrder) : ScanOrder[k] = type

\* the first custom phrase that is the text t, letter case ignored (0 if none is)
PhraseRank(t) ==
    LET is == {i \in 1..Len(scan_words) : Len(scan_words[i]) = Len(t) /\ OccursAt(scan_words[i], t, 0)}
    IN  IF is = {} THEN 0 ELSE CHOOSE i \in is : \A j \in is : i <= j

\* d comes before e in scan order, or with it
NotAfter(d, e) ==
    \/ ScanRank(d.type) < ScanRank(e.type)
    \/ /\ d.type = e.type
       /\ d.type = "CUSTOM" => PhraseRank(d.text) <= PhraseRank(e.text)

(***************************************************************************)
(* C13  Dedup tie-break: the detection find_pii keeps for a (start, text)  *)
(* span has the category of the candidate of that span that comes first in *)
(* scan order (SSN, PHONE, EMAIL, CREDIT_CARD, BANK_ACCOUNT, DOB, ADDRESS, *)
(* NAME, then the custom phrases in list order), and detections with the   *)
(* same start and different texts are in the result in scan order.         *)
(***************************************************************************)
C13_DedupTieBreak ==
    /\ LET candidates == Range(Candidates(scan_text, scan_settings, scan_words))
       IN  \A k \in 1..Len(scan_result) :
               \A c \in candidates :
                   SameSpan(c, scan_result[k]) => ScanRank(scan_result[k].type) <= ScanRank(c.type)
    /\ \A k \in 1..(Len(scan_result) - 1) :
          scan_result[k].start = scan_result[k + 1].start
              => NotAfter(scan_result[k], scan_result[k + 1])

\* in a scan after a checkbox change, a kept detection has the span of a candidate of
\* a later category, and two detections of different types and texts start together
C13_Witness ==
    /\ rescans > 0
    /\ \E k \in 1..Len(scan_result) :
          \E c \in Range(Candidates(scan_text, scan_settings, scan_words)) :
              SameSpan(c, scan_result[k]) /\ ScanRank(scan_result[k].type) < ScanRank(c.type)
    /\ \E k \in 1..(Len(scan_result) - 1) :
          /\ scan_result[k].start = scan_result[k + 1].start
          /\ scan_result[k].type # scan_result[k + 1].type

(***************************************************************************)
(* The lines of the custom-words box, read from its characters             *)
(***************************************************************************)
\* the characters a..b of the box are one line of it (b = a - 1 for an empty line)
IsLine(box, a, b) ==
    /\ a = 1 \/ Ch(box, a - 1) = "\n"
    /\ b = Len(box) \/ Ch(box, b + 1) = "\n"
    /\ \A i \in a..b : Ch(box, i) # "\n"

LinesOf(box) == {ab \in (1..(Len(box) + 1)) \X (0..Len(box)) : ab[2] >= ab[1] - 1 /\ IsLine(box, ab[1], ab[2])}

\* the line without the white space around it
Trimmed(box, a, b) ==
    LET ink == {i \in a..b : Ch(box, i) \notin Whitespace}
    IN  IF ink = {} THEN ""
        ELSE SubSeq(box, CHOOSE i \in ink : \A j \in ink : i <= j, CHOOSE i \in ink : \A j \in ink : j <= i)

\* the lines that are phrases: not empty, not white space only, not a comment
PhraseLines(box) ==
    {ab \in LinesOf(box) : Trimmed(box, ab[1], ab[2]) # "" /\ Ch(Trimmed(box, ab[1], ab[2]), 1) # "#"}

(***************************************************************************)
(* C15  Skipped custom phrases: the phrases a scan uses are the lines of   *)
(* the custom-words box that are not empty, not white space only and not   *)
(* comments (starting with '#'), each without the white space around it;   *)
(* the skipped lines give no detection: every CUSTOM detection of a scan   *)
(* is the text of one of the phrases used, letter case ignored.            *)
(***************************************************************************)
C15_SkippedCustomPhrases ==
    /\ \A i \in 1..Len(scan_words) :
          /\ scan_words[i] # ""
          /\ Ch(scan_words[i], 1) \notin Whitespace \cup {"#"}
          /\ Ch(scan_words[i], Len(scan_words[i])) \notin Whitespace
    /\ Len(scan_words) = Cardinality(PhraseLines(scan_box))
    /\ Range(scan_words) = {Trimmed(scan_box, ab[1], ab[2]) : ab \in PhraseLines(scan_box)}
    /\ \A k \in 1..Len(scan_result) :
          scan_result[k].type = "CUSTOM" => PhraseRank(scan_result[k].text) > 0

\* in a scan after a checkbox change, the box has lines that are skipped, one of them a
\* comment whose text is in the page, and the scan has a CUSTOM detection
C15_Witness ==
    /\ rescans > 0
    /\ Cardinality(PhraseLines(scan_box)) + 3 <= Cardinality(LinesOf(scan_box))
    /\ \E ab \in LinesOf(scan_box) :
          /\ Trimmed(scan_box, ab[1], ab[2]) # ""
          /\ Ch(Trimmed(scan_box, ab[1], ab[2]), 1) = "#"
          /\ OccurrencesFrom(Trimmed(scan_box, ab[1], ab[2]), scan_text, 0) # {}
    /\ \E k \in 1..Len(scan_result) : scan_result[k].type = "CUSTOM"

(***************************************************************************)
(* The detected log and the reports of a run                               *)
(***************************************************************************)
\* the positions of the file headers in results["detected"]
Headers == {i \in 1..Len(results.detected) : results.detected[i].kind = "file"}

\* the position of the header of the j-th document of the run
HeaderOf(j) == CHOOSE i \in Headers : Cardinality({h \in Headers : h <= i}) = j

\* the entries of the log under the header of the j-th document
LogOf(j) ==
    LET later == {h \in Headers : h > HeaderOf(j)}
        last  == IF later = {} THEN Len(results.detected) ELSE (CHOOSE h \in later : \A g \in later : h <= g) - 1
    IN  SubSeq(results.detected, HeaderOf(j) + 1, last)

\* the finding lines of the j-th document: Page n: [TYPE] "text"
LoggedFindings(j) ==
    LET lines == SelectSeq(LogOf(j), LAMBDA e : e.kind = "finding")
    IN  [i \in 1..Len(lines) |-> [page |-> lines[i].page, type |-> lines[i].type, text |-> lines[i].text]]

\* len(dets) of the j-th document: the "Items redacted" line of its report
ItemsRedacted(j) == Len(DetsFor(worker.preview_data, worker.files[j], FreshDets(j)))

\* the "Items redacted" counts of the reports written for the documents 1..n of the run
RECURSIVE ReportedItems(_)
ReportedItems(n) ==
    IF n = 0 THEN 0
    ELSE ReportedItems(n - 1) + (IF results.output[n].ok THEN ItemsRedacted(n) ELSE 0)

(***************************************************************************)
(* C12  Audit report matches the findings: in a redact run, when a         *)
(* document has just been redacted successfully, the item count and the    *)
(* item lines of its report file are the finding lines the detected log    *)
(* shows for that document.                                                *)
(***************************************************************************)
C12_AuditReportMatchesFindings ==
    (RedactRun /\ doc_index > 1 /\ results.output[doc_index - 1].ok) =>
        LET report == report_files[results.output[doc_index - 1].report_path]
        IN  /\ report.items = LoggedFindings(doc_index - 1)
            /\ report.count = Len(LoggedFindings(doc_index - 1))

(***************************************************************************)
(* C18  Cache never outlives its selection: in every state of the          *)
(* application, every path that is a key of the preview cache is in the    *)
(* selected file list.                                                     *)
(***************************************************************************)
C18_CacheWithinSelection == DOMAIN preview_data \subseteq Range(selected_files)

(***************************************************************************)
(* C19  Reported total equals what was redacted: when a redact run has     *)
(* sent its results, the total of the per-category stats equals the sum of *)
(* the "Items redacted" counts of the reports written in the run.          *)
(***************************************************************************)
C19_TotalEqualsRedacted ==
    (pc = "emitted" /\ ~worker.is_preview) =>
        SumValues(results.stats) = ReportedItems(Len(worker.files))

(***************************************************************************)
(* C20  Every opened document is closed: each document of a run that was   *)
(* opened and whose iteration is over has been closed, before the next     *)
(* document is opened and before the completion notification.              *)
(***************************************************************************)
C20_OpenedIsClosed ==
    pc \in {"running", "emitted"} =>
        \A j \in Processed :
            \A o \in 1..Len(events) :
                (events[o].ev = "open" /\ events[o].doc = j) =>
                    \E c \in (o + 1)..Len(events) :
                        /\ events[c].ev = "close" /\ events[c].doc = j
                        /\ \A i \in o..c : events[i].ev = "finished" \/ events[i].ev = "open" => i = o

(***************************************************************************)
(* C14  Progress and completion events: a run emits one progress           *)
(* notification per document, in batch order and before the document is    *)
(* opened; it emits no completion notification before the last document    *)
(* is done, and then exactly one, as its last event, with a result that    *)
(* has the header of every document of the batch in order; documents that  *)
(* fail count like the others.                                             *)
(***************************************************************************)
C14_ProgressAndCompletion ==
    pc \in {"running", "emitted"} =>
        LET progress == SelectSeq(events, LAMBDA e : e.ev = "progress")
            finished == {i \in 1..Len(events) : events[i].ev = "finished"}
        IN  /\ Len(progress) = doc_index - 1
            /\ \A j \in 1..Len(progress) : progress[j].doc = j
            /\ \A o \in 1..Len(events) :
                  events[o].ev = "open" =>
                      \E i \in 1..(o - 1) : events[i].ev = "progress" /\ events[i].doc = events[o].doc
            /\ pc = "running" => finished = {}
            /\ pc = "emitted" =>
                  /\ finished = {Len(events)}
                  /\ Len(progress) = Len(worker.files)
                  /\ Cardinality(Headers) = Len(worker.files)
                  /\ \A j \in 1..Len(worker.files) :
                        results.detected[HeaderOf(j)].name = basename(worker.files[j])

\* a batch of two documents, one that failed and one that did not, has sent its results
C14_Witness ==
    /\ pc = "emitted"
    /\ Len(worker.files) = 2
    /\ \E i \in 1..Len(results.detected) : results.detected[i].kind = "error"
    /\ \E j \in 1..2 : EventsOf(j, "close") # <<>>

(***************************************************************************)
(* C16  Per-page commit ordering: in the iteration of a redact run over a  *)
(* document that opened, every page of the document is committed exactly   *)
(* once, in page order; every detection is handled and marked only on the  *)
(* page whose number it carries, after the commit of the page before and   *)
(* before the commit of its page; the detections handled on a page are the *)
(* detections of the document that carry its number; the document is saved *)
(* after all its commits.                                                  *)
(***************************************************************************)
\* what the step adds to the events of the run
StepEvents == SubSeq(events', Len(events) + 1, Len(events'))

C17_RunsDoNotOverlap ==
    [][ /\ runs' # runs =>
              /\ pc = "idle" /\ pc' = "running"
              /\ runs' = runs + 1
              /\ ~worker'.is_preview => worker'.preview_data = preview_data
        /\ (pc # "idle" /\ pc' # "idle") => worker' = worker
        /\ pc' # "idle" <=> ~buttons_enabled'
      ]_vars

\* a redact run that reads the cache a completed preview stored has processed a document
C17_Witness ==
    /\ RedactRun
    /\ runs = 2
    /\ doc_index > 1
    /\ worker.preview_data # NoDict
    /\ worker.preview_data = preview_data

====
